---- MODULE Spec2Model ----
(***************************************************************************)
(* The key-value server of mjkjkjk/rrrr: the storage engine                *)
(* (src/src/storage.rs), the command executor                              *)
(* (src/src/command_handler.rs), the RESP codec (src/src/resp.rs), the     *)
(* command parser (src/src/command.rs) and the server loop                 *)
(* (src/src/main.rs) as a state machine.  A state is the shared Storage    *)
(* behind its Mutex, the wall clock in whole seconds, a record of the last *)
(* command with its reply and the store it started from, the bytes of one  *)
(* connection's stream, the workers that run INCR side by side, the        *)
(* request handed to the parser, and the connection main is serving.       *)
(*                                                                         *)
(* Text (keys aside) is a sequence of one-character strings, so that       *)
(* str::parse::<i64> and i64::to_string are computed, not assumed.         *)
(* i64 is scaled down to I64_MIN..I64_MAX.                                 *)
(***************************************************************************)
EXTENDS Integers, Sequences, FiniteSets, TLC

\* ------------------------------------------------------------ bounds

\* The clock runs from 0 to MaxNow seconds.
MaxNow == 2

\* The model's i64 is the range I64_MIN..I64_MAX (i64::MAX scaled down).
I64_MAX == 2

I64_MIN == -I64_MAX - 1

\* Del, MGet and Exists carry between one and MaxKeys keys.
MaxKeys == 2

\* The keys commands name.
Keys == {"foo", "k"}

\* The key the numeric commands count on.
CounterKeys == {"counter"}

\* The values SET stores: a word and a decimal integer.
SetValues == {<<"b", "a", "r">>, <<"1">>}

\* The amount argument of INCRBY and DECRBY: an integer, a word, and a
\* decimal number outside the i64 range.
Amounts == {<<"1">>, <<"x">>, <<"9", "9">>}

\* The seconds argument of EXPIRE.
ExpireArgs == {<<"-", "1">>, <<"0">>, <<"1">>, <<"x">>}

\* Text on the wire is at most MaxText bytes long.
MaxText == 2

\* An Array on the wire has at most MaxArray elements.
MaxArray == 2

\* A peer sends at most MaxWire bytes of its own making.
MaxWire == 4

\* The connections that run INCR at the same time.
MaxWorkers == 2

\* A length-prefixed frame is followed by at most MaxTail bytes.
MaxTail == 4

\* A request carries at most MaxArgs elements after the command name.
MaxArgs == 3

\* A connection to main sends at most MaxTokens words.
MaxTokens == 3

\* ------------------------------------------------------------ text and integers

Digits == <<"0", "1", "2", "3", "4", "5", "6", "7", "8", "9">>

IsDigit(c) == \E i \in 1..Len(Digits) : Digits[i] = c

DigitValue(c) == (CHOOSE i \in 1..Len(Digits) : Digits[i] = c) - 1

RECURSIVE Magnitude(_)
Magnitude(ds) ==
    IF ds = <<>> THEN 0
    ELSE Magnitude(SubSeq(ds, 1, Len(ds) - 1)) * 10 + DigitValue(ds[Len(ds)])

Ok(v) == [ok |-> TRUE, val |-> v]

Err(e) == [ok |-> FALSE, err |-> e]

\* str::parse::<i64>: an optional sign, then one or more decimal digits, no
\* blanks; a value outside the i64 range is an error.
parse_i64(src) ==
    LET signed == src # <<>> /\ src[1] \in {"+", "-"}
        digits == IF signed THEN Tail(src) ELSE src
        n == IF signed /\ src[1] = "-" THEN -Magnitude(digits) ELSE Magnitude(digits)
    IN  IF digits = <<>> \/ \E i \in 1..Len(digits) : ~IsDigit(digits[i])
        THEN Err("ParseIntError")
        ELSE IF n < I64_MIN \/ n > I64_MAX THEN Err("ParseIntError") ELSE Ok(n)

RECURSIVE UnsignedToString(_)
UnsignedToString(m) ==
    IF m < 10 THEN <<Digits[m + 1]>>
    ELSE UnsignedToString(m \div 10) \o <<Digits[(m % 10) + 1]>>

\* i64::to_string: the decimal digits, with a leading "-" when negative.
to_string(n) == IF n < 0 THEN <<"-">> \o UnsignedToString(-n) ELSE UnsignedToString(n)

\* The result of an i64 addition or subtraction: in range it is exact; out of
\* range the build decides: with overflow checks (debug) the thread panics,
\* without (release) the value wraps around.
Arith(n, checks) ==
    IF n >= I64_MIN /\ n <= I64_MAX THEN [panic |-> FALSE, overflow |-> FALSE, val |-> n]
    ELSE IF checks THEN [panic |-> TRUE, overflow |-> TRUE]
    ELSE [panic |-> FALSE, overflow |-> TRUE,
          val |-> ((n - I64_MIN) % (I64_MAX - I64_MIN + 1)) + I64_MIN]

\* ------------------------------------------------------------ Option, HashMap

None == [some |-> FALSE]

Some(v) == [some |-> TRUE, val |-> v]

EmptyMap == [x \in {} |-> 0]

Insert(m, key, v) == [x \in DOMAIN m \cup {key} |-> IF x = key THEN v ELSE m[x]]

Remove(m, key) == [x \in DOMAIN m \ {key} |-> m[x]]

\* ------------------------------------------------------------ Storage

\* Storage::new
new == [data |-> EmptyMap, expires |-> EmptyMap]

\* Storage::get: a key whose deadline is before now is removed from data (and
\* only from data) and reads as None.
get(s, key, t) ==
    IF key \in DOMAIN s.expires /\ s.expires[key] < t
    THEN [s |-> [s EXCEPT !.data = Remove(s.data, key)], ret |-> None]
    ELSE [s |-> s, ret |-> IF key \in DOMAIN s.data THEN Some(s.data[key]) ELSE None]

\* Mutant of set: the write also forgets the key's deadline.
set_forgets_deadline(s, key, value) ==
    [data |-> Insert(s.data, key, value), expires |-> Remove(s.expires, key)]

\* Storage::set
set(s, key, value) == [s EXCEPT !.data = Insert(s.data, key, value)]

\* Mutant of set_expire: a key that has a deadline keeps it.
set_expire_keeps_deadline(s, key, expire, t) ==
    IF expire < 0
    THEN [data |-> Remove(s.data, key), expires |-> Remove(s.expires, key)]
    ELSE IF key \in DOMAIN s.expires THEN s
    ELSE [s EXCEPT !.expires = Insert(s.expires, key, t + expire)]

\* Storage::set_expire (its Result is always Ok)
set_expire(s, key, expire, t) ==
    IF expire < 0
    THEN [data |-> Remove(s.data, key), expires |-> Remove(s.expires, key)]
    ELSE [s EXCEPT !.expires = Insert(s.expires, key, t + expire)]

\* Storage::has
has(s, key) == key \in DOMAIN s.data

\* Storage::get_ttl.  *expire - now is a u64 subtraction: when the deadline is
\* before now it panics with overflow checks, and without them it wraps to a
\* value above i64::MAX, on which try_into().unwrap() panics.
get_ttl(s, key, t) ==
    IF ~has(s, key) THEN [panic |-> FALSE, val |-> -2]
    ELSE IF key \in DOMAIN s.expires
         THEN IF s.expires[key] < t THEN [panic |-> TRUE]
              ELSE [panic |-> FALSE, val |-> s.expires[key] - t]
         ELSE [panic |-> FALSE, val |-> -1]

\* Storage::del
del(s, key) == [s EXCEPT !.data = Remove(s.data, key)]

\* Mutant of clear: the other map is the one cleared.
clear_expires_only(s) == [s EXCEPT !.expires = EmptyMap]

\* Storage::clear
clear(s) == [s EXCEPT !.data = EmptyMap]

\* ------------------------------------------------------------ RespValue

\* Each variant keeps its payload in a field of its own.
SimpleString(text) == [tag |-> "SimpleString", text |-> text]

Error(msg) == [tag |-> "Error", msg |-> msg]

Integer(n) == [tag |-> "Integer", n |-> n]

BulkString(opt) == [tag |-> "BulkString", bulk |-> opt]

Array(opt) == [tag |-> "Array", arr |-> opt]

\* The command's thread panicked: no RespValue is returned.
Panic == [tag |-> "Panic"]

NoReply == [tag |-> "None"]

OK == <<"O", "K">>

PONG == <<"P", "O", "N", "G">>

\* "value is not an integer or out of range", the reply of EXPIRE to a bad
\* seconds argument.
NOT_AN_INTEGER ==
    <<"v", "a", "l", "u", "e", " ", "i", "s", " ", "n", "o", "t", " ", "a",
      "n", " ", "i", "n", "t", "e", "g", "e", "r", " ", "o", "r", " ", "o",
      "u", "t", " ", "o", "f", " ", "r", "a", "n", "g", "e">>

\* "ERR value is not an integer or out of range", the reply of the numeric
\* commands to a bad operand.
ERR_NOT_AN_INTEGER == <<"E", "R", "R", " ">> \o NOT_AN_INTEGER

\* ------------------------------------------------------------ the RESP codec

CR == "\r"

LF == "\n"

CRLF == <<CR, LF>>

\* What read_resp returns: the value and the bytes left unread, or an error.
ReadOk(v, rest) == [ok |-> TRUE, val |-> v, rest |-> rest]

ReadErr(e, rest) == [ok |-> FALSE, err |-> e, rest |-> rest]

\* str::trim_end_matches("\r\n"): every trailing CRLF is removed.
RECURSIVE trim_end_matches(_)
trim_end_matches(line) ==
    IF Len(line) >= 2 /\ SubSeq(line, Len(line) - 1, Len(line)) = CRLF
    THEN trim_end_matches(SubSeq(line, 1, Len(line) - 2))
    ELSE line

\* BufRead::read_line, then the trim: the line runs up to and including the
\* first LF, or to the end of the stream when there is none; reading nothing
\* at the end of the stream is not an error.
read_line(bytes) ==
    LET ends == {i \in 1..Len(bytes) : bytes[i] = LF}
        last == IF ends = {} THEN Len(bytes)
                ELSE CHOOSE i \in ends : \A j \in ends : i <= j
    IN  [line |-> trim_end_matches(SubSeq(bytes, 1, last)),
         rest |-> SubSeq(bytes, last + 1, Len(bytes))]

read_simple_string(bytes) ==
    LET l == read_line(bytes) IN ReadOk(SimpleString(l.line), l.rest)

read_error(bytes) ==
    LET l == read_line(bytes) IN ReadOk(Error(l.line), l.rest)

read_integer(bytes) ==
    LET l == read_line(bytes)
        num == parse_i64(l.line)
    IN  IF num.ok THEN ReadOk(Integer(num.val), l.rest)
        ELSE ReadErr("ParseError: Invalid integer", l.rest)

\* Mutant of read_bulk_string: the data is read as a line, not by its length.
read_bulk_string_by_line(bytes) ==
    LET l == read_line(bytes)
        length == parse_i64(l.line)
        data == read_line(l.rest)
    IN  IF ~length.ok THEN ReadErr("ParseError: Invalid bulk string length", l.rest)
        ELSE IF length.val = -1 THEN ReadOk(BulkString(None), l.rest)
        ELSE IF length.val < 0 THEN ReadErr("ParseError: Invalid bulk string length", l.rest)
        ELSE ReadOk(BulkString(Some(data.line)), data.rest)

\* Mutant of read_bulk_string: the two bytes after the data are not compared
\* with CRLF.
read_bulk_string_unchecked(bytes) ==
    LET l == read_line(bytes)
        length == parse_i64(l.line)
    IN  IF ~length.ok THEN ReadErr("ParseError: Invalid bulk string length", l.rest)
        ELSE IF length.val = -1 THEN ReadOk(BulkString(None), l.rest)
        ELSE IF length.val < 0 THEN ReadErr("ParseError: Invalid bulk string length", l.rest)
        ELSE IF Len(l.rest) < length.val + 2 THEN ReadErr("IoError: UnexpectedEof", <<>>)
        ELSE ReadOk(BulkString(Some(SubSeq(l.rest, 1, length.val))),
                    SubSeq(l.rest, length.val + 3, Len(l.rest)))

read_bulk_string(bytes) ==
    LET l == read_line(bytes)
        length == parse_i64(l.line)
    IN  IF ~length.ok THEN ReadErr("ParseError: Invalid bulk string length", l.rest)
        ELSE IF length.val = -1 THEN ReadOk(BulkString(None), l.rest)
        ELSE IF length.val < 0 THEN ReadErr("ParseError: Invalid bulk string length", l.rest)
        ELSE IF Len(l.rest) < length.val + 2 THEN ReadErr("IoError: UnexpectedEof", <<>>)
        ELSE LET buf == SubSeq(l.rest, 1, length.val + 2)
                 rest == SubSeq(l.rest, length.val + 3, Len(l.rest))
             IN  IF SubSeq(buf, length.val + 1, length.val + 2) # CRLF
                 THEN ReadErr("ParseError: Missing CRLF", rest)
                 ELSE ReadOk(BulkString(Some(SubSeq(buf, 1, length.val))), rest)

RECURSIVE read_resp(_)

\* for _ in 0..length { values.push(read_resp(reader)?) }
RECURSIVE read_values(_, _, _)
read_values(bytes, length, values) ==
    IF length = 0 THEN ReadOk(Array(Some(values)), bytes)
    ELSE LET item == read_resp(bytes)
         IN  IF ~item.ok THEN item
             ELSE read_values(item.rest, length - 1, Append(values, item.val))

\* Mutant of read_array: every negative length is taken for the null Array.
read_array_negative_is_null(bytes) ==
    LET l == read_line(bytes)
        length == parse_i64(l.line)
    IN  IF ~length.ok THEN ReadErr("ParseError: Invalid array length", l.rest)
        ELSE IF length.val < 0 THEN ReadOk(Array(None), l.rest)
        ELSE read_values(l.rest, length.val, <<>>)

\* Mutant of read_array: the elements are decoded from a copy of the reader,
\* so the reader itself stays at the end of the length line.
read_array_on_copy(bytes) ==
    LET l == read_line(bytes)
        length == parse_i64(l.line)
    IN  IF ~length.ok THEN ReadErr("ParseError: Invalid array length", l.rest)
        ELSE IF length.val = -1 THEN ReadOk(Array(None), l.rest)
        ELSE IF length.val < 0 THEN ReadErr("ParseError: Invalid array length", l.rest)
        ELSE LET elements == read_values(l.rest, length.val, <<>>)
             IN  IF elements.ok THEN ReadOk(elements.val, l.rest) ELSE elements

read_array(bytes) ==
    LET l == read_line(bytes)
        length == parse_i64(l.line)
    IN  IF ~length.ok THEN ReadErr("ParseError: Invalid array length", l.rest)
        ELSE IF length.val = -1 THEN ReadOk(Array(None), l.rest)
        ELSE IF length.val < 0 THEN ReadErr("ParseError: Invalid array length", l.rest)
        ELSE read_values(l.rest, length.val, <<>>)

read_resp(bytes) ==
    IF bytes = <<>> THEN ReadErr("IoError: UnexpectedEof", <<>>)
    ELSE CASE Head(bytes) = "+" -> read_simple_string(Tail(bytes))
           [] Head(bytes) = "-" -> read_error(Tail(bytes))
           [] Head(bytes) = ":" -> read_integer(Tail(bytes))
           [] Head(bytes) = "$" -> read_bulk_string(Tail(bytes))
           [] Head(bytes) = "*" -> read_array(Tail(bytes))
           [] OTHER -> ReadErr("ParseError: Invalid RESP type byte", Tail(bytes))

RECURSIVE write_resp(_)

\* for item in arr { write_resp(item, writer)? }
RECURSIVE write_items(_)
write_items(arr) ==
    IF arr = <<>> THEN <<>> ELSE write_resp(Head(arr)) \o write_items(Tail(arr))

\* Mutant of write_resp: the null BulkString is written as an empty one.
write_resp_null_as_empty(value) ==
    CASE value.tag = "SimpleString" -> <<"+">> \o value.text \o CRLF
      [] value.tag = "Error" -> <<"-">> \o value.msg \o CRLF
      [] value.tag = "Integer" -> <<":">> \o to_string(value.n) \o CRLF
      [] value.tag = "BulkString" ->
            <<"$">> \o (IF ~value.bulk.some THEN <<"0">> \o CRLF \o CRLF
                        ELSE to_string(Len(value.bulk.val)) \o CRLF
                             \o value.bulk.val \o CRLF)
      [] value.tag = "Array" ->
            <<"*">> \o (IF ~value.arr.some THEN <<"-", "1">> \o CRLF
                        ELSE to_string(Len(value.arr.val)) \o CRLF
                             \o write_items(value.arr.val))

write_resp(value) ==
    CASE value.tag = "SimpleString" -> <<"+">> \o value.text \o CRLF
      [] value.tag = "Error" -> <<"-">> \o value.msg \o CRLF
      [] value.tag = "Integer" -> <<":">> \o to_string(value.n) \o CRLF
      [] value.tag = "BulkString" ->
            <<"$">> \o (IF ~value.bulk.some THEN <<"-", "1">> \o CRLF
                        ELSE to_string(Len(value.bulk.val)) \o CRLF
                             \o value.bulk.val \o CRLF)
      [] value.tag = "Array" ->
            <<"*">> \o (IF ~value.arr.some THEN <<"-", "1">> \o CRLF
                        ELSE to_string(Len(value.arr.val)) \o CRLF
                             \o write_items(value.arr.val))

\* ------------------------------------------------------------ Command::try_from

LowerCase ==
    <<"a", "b", "c", "d", "e", "f", "g", "h", "i", "j", "k", "l", "m",
      "n", "o", "p", "q", "r", "s", "t", "u", "v", "w", "x", "y", "z">>

UpperCase ==
    <<"A", "B", "C", "D", "E", "F", "G", "H", "I", "J", "K", "L", "M",
      "N", "O", "P", "Q", "R", "S", "T", "U", "V", "W", "X", "Y", "Z">>

\* Mutant of to_uppercase: the name is matched as it was sent.
to_uppercase_not_applied(s) == s

\* str::to_uppercase, on ASCII text: each lower-case letter becomes its
\* upper-case letter, every other character stays.
to_uppercase(s) ==
    [i \in 1..Len(s) |->
        IF \E j \in 1..26 : LowerCase[j] = s[i]
        THEN UpperCase[CHOOSE j \in 1..26 : LowerCase[j] = s[i]]
        ELSE s[i]]

\* The string literals the arms of try_from match the command name against.
Name ==
    [GET |-> <<"G", "E", "T">>,
     MGET |-> <<"M", "G", "E", "T">>,
     SET |-> <<"S", "E", "T">>,
     INCRBY |-> <<"I", "N", "C", "R", "B", "Y">>,
     INCR |-> <<"I", "N", "C", "R">>,
     DECRBY |-> <<"D", "E", "C", "R", "B", "Y">>,
     DECR |-> <<"D", "E", "C", "R">>,
     DEL |-> <<"D", "E", "L">>,
     PING |-> <<"P", "I", "N", "G">>,
     COMMAND |-> <<"C", "O", "M", "M", "A", "N", "D">>,
     EXISTS |-> <<"E", "X", "I", "S", "T", "S">>,
     EXPIRE |-> <<"E", "X", "P", "I", "R", "E">>,
     TTL |-> <<"T", "T", "L">>,
     FLUSHALL |-> <<"F", "L", "U", "S", "H", "A", "L", "L">>]

\* enum CommandError
WrongNumberOfArguments(cmd, expected, got) ==
    [kind |-> "WrongNumberOfArguments", cmd |-> cmd, expected |-> expected, got |-> got]

ParseError(message) == [kind |-> "ParseError", message |-> message]

\* Mutant of UnknownCommand: a name with no arm is reported as a parse error.
UnknownCommand_as_parse_error(name) == [kind |-> "ParseError", message |-> "unknown command"]

UnknownCommand(name) == [kind |-> "UnknownCommand", name |-> name]

\* Mutant of extract_string: only a BulkString is taken for a string.
extract_string_bulk_only(value) ==
    IF value.tag = "BulkString" /\ value.bulk.some THEN Ok(value.bulk.val)
    ELSE Err(ParseError("expected string"))

extract_string(value) ==
    IF value.tag = "BulkString" /\ value.bulk.some THEN Ok(value.bulk.val)
    ELSE IF value.tag = "SimpleString" THEN Ok(value.text)
    ELSE Err(ParseError("expected string"))

\* array[1..].iter().map(extract_string).collect::<Result<Vec<String>, _>>()?
\* and the loop of the DEL arm: the strings in order, or the first error.
RECURSIVE extract_strings(_, _)
extract_strings(args, keys) ==
    IF args = <<>> THEN Ok(keys)
    ELSE LET key == extract_string(Head(args))
         IN  IF ~key.ok THEN key ELSE extract_strings(Tail(args), Append(keys, key.val))

\* The arms with one argument: Get, Incr, Decr, TTL { key }.
with_key(op, array) ==
    LET key == extract_string(array[2])
    IN  IF ~key.ok THEN key ELSE Ok([op |-> op, key |-> key.val])

\* The arms with two arguments: Set, IncrBy, DecrBy { key, value }.
with_key_value(op, array) ==
    LET key == extract_string(array[2])
        value == extract_string(array[3])
    IN  IF ~key.ok THEN key
        ELSE IF ~value.ok THEN value
        ELSE Ok([op |-> op, key |-> key.val, value |-> value.val])

\* Expire { key, expire }
with_key_expire(array) ==
    LET key == extract_string(array[2])
        expire == extract_string(array[3])
    IN  IF ~key.ok THEN key
        ELSE IF ~expire.ok THEN expire
        ELSE Ok([op |-> "Expire", key |-> key.val, expire |-> expire.val])

\* The arms with one argument or more: MGet, Del, Exists { keys }.
with_keys(op, array) ==
    LET keys == extract_strings(Tail(array), <<>>)
    IN  IF ~keys.ok THEN keys ELSE Ok([op |-> op, keys |-> keys.val])

\* Mutant of wrong_count: arguments beyond the arity are let through.
wrong_count_below_only(len, expected) == len < expected

\* if array.len() != expected: the arms of fixed arity.
wrong_count(len, expected) == len # expected

\* if array.len() < 2: the arms that take one key or more.
too_few(len, expected) == len < expected

\* The arm of one command name.
arm(command_name, array) ==
    LET len == Len(array)
        wrong(expected) == Err(WrongNumberOfArguments(command_name, expected, len))
    IN  CASE command_name = Name.GET -> IF wrong_count(len, 2) THEN wrong(2) ELSE with_key("Get", array)
          [] command_name = Name.MGET -> IF too_few(len, 2) THEN wrong(2) ELSE with_keys("MGet", array)
          [] command_name = Name.SET ->
                IF wrong_count(len, 3) THEN wrong(3) ELSE with_key_value("Set", array)
          [] command_name = Name.INCRBY ->
                IF wrong_count(len, 3) THEN wrong(3) ELSE with_key_value("IncrBy", array)
          [] command_name = Name.INCR -> IF wrong_count(len, 2) THEN wrong(2) ELSE with_key("Incr", array)
          [] command_name = Name.DECRBY ->
                IF wrong_count(len, 3) THEN wrong(3) ELSE with_key_value("DecrBy", array)
          [] command_name = Name.DECR -> IF wrong_count(len, 2) THEN wrong(2) ELSE with_key("Decr", array)
          [] command_name = Name.DEL -> IF too_few(len, 2) THEN wrong(2) ELSE with_keys("Del", array)
          [] command_name = Name.PING -> IF wrong_count(len, 1) THEN wrong(1) ELSE Ok([op |-> "Ping"])
          [] command_name = Name.COMMAND ->
                IF wrong_count(len, 2) THEN wrong(2) ELSE Ok([op |-> "CommandDocs"])
          [] command_name = Name.EXISTS ->
                IF too_few(len, 2) THEN wrong(2) ELSE with_keys("Exists", array)
          [] command_name = Name.EXPIRE -> IF wrong_count(len, 3) THEN wrong(3) ELSE with_key_expire(array)
          [] command_name = Name.TTL -> IF wrong_count(len, 2) THEN wrong(2) ELSE with_key("TTL", array)
          [] command_name = Name.FLUSHALL ->
                IF wrong_count(len, 1) THEN wrong(1) ELSE Ok([op |-> "FlushAll"])
          [] OTHER -> Err(UnknownCommand(command_name))

\* impl TryFrom<RespValue> for Command
try_from(value) ==
    IF value.tag = "Array" /\ value.arr.some
    THEN LET array == value.arr.val
         IN  IF array = <<>> THEN Err(ParseError("empty command"))
             ELSE IF ~(array[1].tag = "BulkString" /\ array[1].bulk.some)
             THEN Err(ParseError("command name must be a bulk string"))
             ELSE arm(to_uppercase(array[1].bulk.val), array)
    ELSE Err(ParseError("expected array"))

\* ------------------------------------------------------------ state

VARIABLES
    storage,    \* the Storage behind Arc<Mutex<Storage>>
    poisoned,   \* the Mutex is poisoned: a thread panicked holding it
    now,        \* SystemTime::now() in whole seconds
    build,      \* "any" until an integer overflow shows the build: "debug"
                \* (overflow checks: it panicked) or "release" (it wrapped)
    lastCmd,    \* the last command handed to handle_command
    lastReply,  \* what handle_command returned for it
    pre,        \* storage and poisoned as that command found them
    incrRun     \* how many Incr in a row on one key, begun on an absent key

VARIABLES
    wire,       \* the bytes in the stream that read_resp has not read yet
    written,    \* the RespValue write_resp put in the stream, if it did
    decoded     \* what the last read_resp found in the stream and returned

VARIABLES
    pc,         \* where each worker is in the Incr arm of handle_command
    holder,     \* the worker holding the MutexGuard of the storage, or 0
    current,    \* each worker's current_num
    replies,    \* what handle_command returned to each worker
    spawnedOn   \* storage and poisoned as they were when the workers began

VARIABLES
    request,    \* the RespValue handed to Command::try_from
    parsed,     \* what try_from returned for it
    earlier     \* the request before this one and what try_from returned

VARIABLES
    buf,        \* what main read from the accepted connection, if it did
    printed,    \* what main printed for it, or the panic it ended in
    running,    \* the server process is running
    connected,  \* main still holds the stream of that connection
    sent,       \* the bytes main wrote to that stream
    acked       \* the key and value of the last SET main answered with OK, if
                \* only GETs were served since

VARIABLES
    handler,    \* the data map of one RespHandler
    asked,      \* the tokens of the last command it handled
    answer,     \* what handle returned for them, or the panic
    had         \* the map as that command found it

VARIABLES
    stream,     \* the bytes of a reader that read_resp has not read yet
    queue,      \* the RespValues written into that reader, in order
    reads       \* what each read_resp on that reader returned, in order

codecVars == <<wire, written, decoded>>

streamVars == <<stream, queue, reads>>

parserVars == <<request, parsed, earlier>>

serverVars == <<buf, printed, running, connected, sent, acked>>

handlerVars == <<handler, asked, answer, had>>

workerVars == <<pc, holder, current, replies, spawnedOn>>

vars == <<storage, poisoned, now, build, lastCmd, lastReply, pre, incrRun,
          codecVars, workerVars, parserVars, serverVars, handlerVars, streamVars>>

Workers == 1..MaxWorkers

\* The key lists of Del, MGet and Exists over the keys ks.
KeyLists(ks) == UNION {[1..n -> ks] : n \in 1..MaxKeys}

Init ==
    /\ storage = new
    /\ poisoned = FALSE
    /\ now = 0
    /\ build = "any"
    /\ lastCmd = [op |-> "Start"]
    /\ lastReply = NoReply
    /\ pre = [storage |-> new, poisoned |-> FALSE]
    /\ incrRun = 0
    /\ wire = <<>>
    /\ written = NoReply
    /\ decoded = NoReply
    /\ pc = [w \in Workers |-> "idle"]
    /\ holder = 0
    /\ current = [w \in Workers |-> 0]
    /\ replies = [w \in Workers |-> NoReply]
    /\ spawnedOn = NoReply
    /\ request = NoReply
    /\ parsed = NoReply
    /\ earlier = NoReply
    /\ buf = None
    /\ printed = None
    /\ running = TRUE
    /\ connected = FALSE
    /\ sent = <<>>
    /\ acked = None
    /\ handler = EmptyMap
    /\ asked = None
    /\ answer = None
    /\ had = EmptyMap
    /\ stream = <<>>
    /\ queue = <<>>
    /\ reads = <<>>

\* The length of the run of Incr commands that `cmd` extends or begins.
NextRun(cmd) ==
    IF cmd.op # "Incr" THEN 0
    ELSE IF lastCmd = cmd /\ incrRun > 0
         THEN (IF incrRun > I64_MAX THEN incrRun ELSE incrRun + 1)
         ELSE IF ~has(storage, cmd.key) THEN 1 ELSE 0

\* handle_command returns `reply` (or panics) leaving the store as s2.
Finish(cmd, reply, s2, p2) ==
    /\ storage' = s2
    /\ poisoned' = p2
    /\ lastCmd' = cmd
    /\ lastReply' = reply
    /\ pre' = [storage |-> storage, poisoned |-> poisoned]
    /\ incrRun' = NextRun(cmd)
    /\ UNCHANGED <<now, codecVars, parserVars, serverVars, workerVars, handlerVars, streamVars>>

\* storage.lock().unwrap(), then the arm: lock() waits until no other thread
\* holds the guard; on a poisoned Mutex unwrap panics; an arm that panics
\* holding the guard poisons the Mutex.
Locked(cmd, reply, s2, panics) ==
    /\ holder = 0
    /\ IF poisoned THEN Finish(cmd, Panic, storage, TRUE)
       ELSE IF panics THEN Finish(cmd, Panic, s2, TRUE)
       ELSE Finish(cmd, reply, s2, FALSE)

\* ------------------------------------------------------------ handle_command

Ping ==
    /\ Finish([op |-> "Ping"], SimpleString(PONG), storage, poisoned)
    /\ UNCHANGED build

Get(key) ==
    LET r == get(storage, key, now)
    IN  /\ Locked([op |-> "Get", key |-> key], BulkString(r.ret), r.s, FALSE)
        /\ UNCHANGED build

Set(key, value) ==
    /\ Locked([op |-> "Set", key |-> key, value |-> value], SimpleString(OK),
              set(storage, key, value), FALSE)
    /\ UNCHANGED build

\* for key in keys { storage.del(key) }
RECURSIVE DelAll(_, _)
DelAll(s, keys) == IF keys = <<>> THEN s ELSE DelAll(del(s, Head(keys)), Tail(keys))

Del(keys) ==
    /\ Locked([op |-> "Del", keys |-> keys], SimpleString(OK), DelAll(storage, keys), FALSE)
    /\ UNCHANGED build

CommandDocs ==
    /\ Finish([op |-> "CommandDocs"], SimpleString(OK), storage, poisoned)
    /\ UNCHANGED build

\* The closure each numeric command passes to handle_numeric_operation.
operation(op, n, v) ==
    CASE op = "IncrBy" -> n + v
      [] op = "Incr" -> n + 1
      [] op = "DecrBy" -> n - v
      [] op = "Decr" -> n - 1

handle_numeric_operation(s, key, value, op, t, checks) ==
    IF ~value.ok
    THEN [s |-> s, panic |-> FALSE, overflow |-> FALSE, res |-> Err(ERR_NOT_AN_INTEGER)]
    ELSE LET g == get(s, key, t)
             current_value == IF g.ret.some THEN g.ret.val ELSE <<"0">>
             current_num == parse_i64(current_value)
         IN  IF ~current_num.ok
             THEN [s |-> g.s, panic |-> FALSE, overflow |-> FALSE,
                   res |-> Err(ERR_NOT_AN_INTEGER)]
             ELSE LET new_value == Arith(operation(op, current_num.val, value.val), checks)
                  IN  IF new_value.panic
                      THEN [s |-> g.s, panic |-> TRUE, overflow |-> TRUE]
                      ELSE [s |-> set(g.s, key, to_string(new_value.val)), panic |-> FALSE,
                            overflow |-> new_value.overflow, res |-> Ok(new_value.val)]

\* Ok(new_value) => Integer(new_value), Err(err_msg) => Error(err_msg)
NumericReply(r) ==
    IF r.panic THEN Panic ELSE IF r.res.ok THEN Integer(r.res.val) ELSE Error(r.res.err)

\* The builds the run so far leaves possible: TRUE has overflow checks.
Builds == CASE build = "any" -> BOOLEAN [] build = "debug" -> {TRUE} [] build = "release" -> {FALSE}

\* One arm of the Incr family in a build with (checks) or without overflow
\* checks: the lock, handle_numeric_operation, the reply.
Numeric(cmd, value, checks) ==
    LET r == handle_numeric_operation(storage, cmd.key, value, cmd.op, now, checks)
    IN  /\ Locked(cmd, NumericReply(r), r.s, r.panic)
        /\ build' = IF poisoned \/ ~r.overflow THEN build
                    ELSE IF checks THEN "debug" ELSE "release"

IncrBy(key, value) ==
    \E checks \in Builds :
        Numeric([op |-> "IncrBy", key |-> key, value |-> value], parse_i64(value), checks)

Incr(key) ==
    \E checks \in Builds : Numeric([op |-> "Incr", key |-> key], Ok(1), checks)

DecrBy(key, value) ==
    \E checks \in Builds :
        Numeric([op |-> "DecrBy", key |-> key, value |-> value], parse_i64(value), checks)

Decr(key) ==
    \E checks \in Builds : Numeric([op |-> "Decr", key |-> key], Ok(1), checks)

\* keys.iter().map(|key| storage.get(key)): the gets run in order on one store.
RECURSIVE GetAll(_, _, _)
GetAll(s, keys, t) ==
    IF keys = <<>> THEN [s |-> s, values |-> <<>>]
    ELSE LET r == get(s, Head(keys), t)
             rest == GetAll(r.s, Tail(keys), t)
         IN  [s |-> rest.s, values |-> <<BulkString(r.ret)>> \o rest.values]

MGet(keys) ==
    LET r == GetAll(storage, keys, now)
    IN  /\ Locked([op |-> "MGet", keys |-> keys],
                  IF Len(r.values) = 1 THEN r.values[1] ELSE Array(Some(r.values)),
                  r.s, FALSE)
        /\ UNCHANGED build

FlushAll ==
    /\ Locked([op |-> "FlushAll"], SimpleString(OK), clear(storage), FALSE)
    /\ UNCHANGED build

Exists(keys) ==
    /\ Locked([op |-> "Exists", keys |-> keys],
              Integer(Cardinality({i \in 1..Len(keys) : has(storage, keys[i])})),
              storage, FALSE)
    /\ UNCHANGED build

Expire(key, expire) ==
    LET ttl == parse_i64(expire)
        cmd == [op |-> "Expire", key |-> key, expire |-> expire]
    IN  /\ IF ~ttl.ok THEN Locked(cmd, Error(NOT_AN_INTEGER), storage, FALSE)
           ELSE IF ~has(storage, key)
                THEN Locked(cmd, SimpleString(<<"0">>), storage, FALSE)
                ELSE Locked(cmd, SimpleString(<<"1">>),
                            set_expire(storage, key, ttl.val, now), FALSE)
        /\ UNCHANGED build

TTL(key) ==
    LET ttl == get_ttl(storage, key, now)
    IN  /\ Locked([op |-> "TTL", key |-> key],
                  IF ttl.panic THEN Panic ELSE Integer(ttl.val), storage, ttl.panic)
        /\ UNCHANGED build

\* A second of wall-clock time passes.
Tick ==
    /\ now < MaxNow
    /\ now' = now + 1
    /\ lastCmd' = [op |-> "Tick"]
    /\ lastReply' = NoReply
    /\ pre' = [storage |-> storage, poisoned |-> poisoned]
    /\ incrRun' = 0
    /\ UNCHANGED <<storage, poisoned, build, codecVars, parserVars, serverVars, workerVars, handlerVars, streamVars>>

\* The commands on strings, over Keys.
Next ==
    \/ Ping
    \/ \E key \in Keys : Get(key)
    \/ \E key \in Keys, value \in SetValues : Set(key, value)
    \/ \E keys \in KeyLists(Keys) : Del(keys)
    \/ CommandDocs
    \/ \E keys \in KeyLists(Keys) : MGet(keys)
    \/ FlushAll
    \/ \E keys \in KeyLists(Keys) : Exists(keys)
    \/ \E key \in Keys, expire \in ExpireArgs : Expire(key, expire)
    \/ \E key \in Keys : TTL(key)
    \/ Tick

Spec == Init /\ [][Next]_vars

\* The numeric commands, with those that make and unmake their key, over
\* CounterKeys.
NextNumeric ==
    \/ \E key \in CounterKeys : Get(key)
    \/ \E key \in CounterKeys, value \in SetValues : Set(key, value)
    \/ \E keys \in KeyLists(CounterKeys) : Del(keys)
    \/ \E key \in CounterKeys, value \in Amounts : IncrBy(key, value)
    \/ \E key \in CounterKeys : Incr(key)
    \/ \E key \in CounterKeys, value \in Amounts : DecrBy(key, value)
    \/ \E key \in CounterKeys : Decr(key)
    \/ FlushAll
    \/ \E key \in CounterKeys, expire \in ExpireArgs : Expire(key, expire)
    \/ \E key \in CounterKeys : TTL(key)
    \/ Tick

SpecNumeric == Init /\ [][NextNumeric]_vars

\* ------------------------------------------------------------ values and bytes on the wire

Min(a, b) == IF a < b THEN a ELSE b

\* The lengths write_resp prints and read_resp parses back as an i64.
TextLens == 0..Min(MaxText, I64_MAX)

ArrayLens == 0..Min(MaxArray, I64_MAX)

\* The text of a SimpleString or an Error: no CR, no LF.
LineTexts == UNION {[1..n -> {"a", "1"}] : n \in TextLens}

\* The data of a BulkString: any bytes.
BulkTexts == UNION {[1..n -> {"a", CR, LF}] : n \in TextLens}

Scalars ==
    {SimpleString(t) : t \in LineTexts} \cup {Error(t) : t \in LineTexts}
        \cup {Integer(n) : n \in I64_MIN..I64_MAX}
        \cup {BulkString(None)} \cup {BulkString(Some(t)) : t \in BulkTexts}
        \cup {Array(None)}

\* What an Array holds: scalars of every kind, and Arrays of them.
Elements ==
    {SimpleString(OK), Error(<<"a">>), Integer(-1), BulkString(None),
     BulkString(Some(<<"a", LF>>))}

Inner == {Array(None), Array(Some(<<>>))} \cup {Array(Some(<<e>>)) : e \in Elements}

Arrays == {Array(Some(items)) : items \in UNION {[1..n -> Elements \cup Inner] : n \in ArrayLens}}

\* The values write_resp is given.
Values == Scalars \cup Arrays

WireBytes == {"+", "-", ":", "$", "*", "1", "a", CR, LF}

\* The bytes a peer may send: any at all.
Wires == UNION {[1..n -> WireBytes] : n \in 0..MaxWire}

\* The length lines a peer may send after "$" or "*": the sentinel, other
\* negatives, counts, text that is no number.
LengthTexts ==
    {<<"-", "1">>, <<"-", "2">>, <<"0">>, <<"1">>, <<"2">>, <<"+", "1">>, <<"a">>, <<>>}

\* The bytes that follow a length line: data, terminators, or neither.
Tails == UNION {[1..n -> {"a", CR, LF}] : n \in 0..MaxTail}

\* Length-prefixed frames, sound and unsound, with their length line ended by
\* CRLF.
Frames ==
    {<<t>> \o len \o CRLF \o tail : t \in {"$", "*"}, len \in LengthTexts, tail \in Tails}

\* The connection is new: nothing was written to its stream or read from it.
StreamIdle == wire = <<>> /\ written = NoReply /\ decoded = NoReply

\* A peer's bytes arrive in the stream of a new connection.
Receive ==
    /\ StreamIdle
    /\ \E bytes \in Wires \cup Frames :
        /\ wire' = bytes
        /\ written' = NoReply
        /\ decoded' = NoReply
    /\ UNCHANGED <<storage, poisoned, now, build, lastCmd, lastReply, pre, incrRun, workerVars, parserVars, serverVars, handlerVars, streamVars>>

\* write_resp(value, writer) on the stream of a new connection.
WriteResp ==
    /\ StreamIdle
    /\ \E value \in Values :
        /\ wire' = write_resp(value)
        /\ written' = value
        /\ decoded' = NoReply
    /\ UNCHANGED <<storage, poisoned, now, build, lastCmd, lastReply, pre, incrRun, workerVars, parserVars, serverVars, handlerVars, streamVars>>

\* read_resp(reader): the stream is left at the first byte not read.
ReadResp ==
    LET result == read_resp(wire)
    IN  /\ decoded' = [input |-> wire, result |-> result]
        /\ wire' = result.rest
        /\ UNCHANGED <<storage, poisoned, now, build, lastCmd, lastReply, pre, incrRun,
                       written, workerVars, parserVars, serverVars, handlerVars, streamVars>>

\* One frame on a new connection: it arrives or is written, then it is read.
NextCodec == Receive \/ WriteResp \/ ReadResp

SpecCodec == Init /\ [][NextCodec]_vars

\* ------------------------------------------------------------ two values in one reader

\* The values written behind another one: scalars of every kind, the null
\* and the empty Array, Arrays of one element.
Followers == Elements \cup Inner

\* write_resp(value, writer) into an empty reader.
WriteFirst ==
    /\ queue = <<>>
    /\ reads = <<>>
    /\ \E value \in Values :
        /\ stream' = write_resp(value)
        /\ queue' = <<value>>
    /\ UNCHANGED <<storage, poisoned, now, build, lastCmd, lastReply, pre, incrRun, reads,
                   codecVars, workerVars, parserVars, serverVars, handlerVars>>

\* write_resp(value, writer) behind the first value, before anything is read.
WriteSecond ==
    /\ Len(queue) = 1
    /\ reads = <<>>
    /\ \E value \in Followers :
        /\ stream' = stream \o write_resp(value)
        /\ queue' = Append(queue, value)
    /\ UNCHANGED <<storage, poisoned, now, build, lastCmd, lastReply, pre, incrRun, reads,
                   codecVars, workerVars, parserVars, serverVars, handlerVars>>

\* read_resp(reader), once for each value written: the reader is left at the
\* first byte not read.
ReadNext ==
    /\ Len(reads) < Len(queue)
    /\ LET result == read_resp(stream)
       IN  /\ reads' = Append(reads, result)
           /\ stream' = result.rest
    /\ UNCHANGED <<storage, poisoned, now, build, lastCmd, lastReply, pre, incrRun, queue,
                   codecVars, workerVars, parserVars, serverVars, handlerVars>>

NextStream == WriteFirst \/ WriteSecond \/ ReadNext

SpecStream == Init /\ [][NextStream]_vars

\* ------------------------------------------------------------ workers running INCR

\* The key every worker increments.
WorkerKey == CHOOSE key \in CounterKeys : TRUE

WorkersIdle == \A w \in Workers : pc[w] = "idle"

\* One connection per worker is accepted and each receives INCR WorkerKey.
Spawn ==
    /\ WorkersIdle
    /\ pc' = [w \in Workers |-> "ready"]
    /\ spawnedOn' = [storage |-> storage, poisoned |-> poisoned]
    /\ UNCHANGED <<storage, poisoned, now, build, lastCmd, lastReply, pre, incrRun,
                   codecVars, parserVars, serverVars, holder, current, replies, handlerVars, streamVars>>

\* let mut storage = storage.lock().unwrap(): the worker waits for the guard;
\* on a poisoned Mutex it panics.
WLock(w) ==
    /\ pc[w] = "ready"
    /\ holder = 0
    /\ IF poisoned
       THEN /\ pc' = [pc EXCEPT ![w] = "done"]
            /\ replies' = [replies EXCEPT ![w] = Panic]
            /\ UNCHANGED holder
       ELSE /\ pc' = [pc EXCEPT ![w] = "locked"]
            /\ holder' = w
            /\ UNCHANGED replies
    /\ UNCHANGED <<storage, poisoned, now, build, lastCmd, lastReply, pre, incrRun,
                   codecVars, parserVars, serverVars, current, spawnedOn, handlerVars, streamVars>>

\* handle_numeric_operation up to current_num: the get and the parse.  An
\* unparsable value returns the error, which drops the guard.
WRead(w) ==
    LET g == get(storage, WorkerKey, now)
        current_value == IF g.ret.some THEN g.ret.val ELSE <<"0">>
        current_num == parse_i64(current_value)
    IN  /\ pc[w] = "locked"
        /\ storage' = g.s
        /\ IF current_num.ok
           THEN /\ current' = [current EXCEPT ![w] = current_num.val]
                /\ pc' = [pc EXCEPT ![w] = "read"]
                /\ UNCHANGED <<replies, holder>>
           ELSE /\ replies' = [replies EXCEPT ![w] = Error(ERR_NOT_AN_INTEGER)]
                /\ pc' = [pc EXCEPT ![w] = "done"]
                /\ holder' = 0
                /\ UNCHANGED current
        /\ UNCHANGED <<poisoned, now, build, lastCmd, lastReply, pre, incrRun,
                       codecVars, parserVars, serverVars, spawnedOn, handlerVars, streamVars>>

\* handle_numeric_operation from operation(current_num, value) on: the sum,
\* the set, the reply.  A sum that panics unwinds through the guard.
WWrite(w) ==
    /\ pc[w] = "read"
    /\ \E checks \in Builds :
        LET new_value == Arith(operation("Incr", current[w], 1), checks)
        IN  /\ build' = IF ~new_value.overflow THEN build
                        ELSE IF checks THEN "debug" ELSE "release"
            /\ IF new_value.panic
               THEN /\ poisoned' = TRUE
                    /\ replies' = [replies EXCEPT ![w] = Panic]
                    /\ pc' = [pc EXCEPT ![w] = "done"]
                    /\ holder' = 0
                    /\ UNCHANGED storage
               ELSE /\ storage' = set(storage, WorkerKey, to_string(new_value.val))
                    /\ replies' = [replies EXCEPT ![w] = Integer(new_value.val)]
                    /\ pc' = [pc EXCEPT ![w] = "written"]
                    /\ UNCHANGED <<poisoned, holder>>
    /\ UNCHANGED <<now, lastCmd, lastReply, pre, incrRun, codecVars, parserVars, serverVars, current, spawnedOn, handlerVars, streamVars>>

\* The Incr arm returns: the guard goes out of scope.
WReturn(w) ==
    /\ pc[w] = "written"
    /\ pc' = [pc EXCEPT ![w] = "done"]
    /\ holder' = 0
    /\ UNCHANGED <<storage, poisoned, now, build, lastCmd, lastReply, pre, incrRun,
                   codecVars, parserVars, serverVars, current, replies, spawnedOn, handlerVars, streamVars>>

\* Commands of one connection bring the store to some state; then the workers
\* run INCR on the one key, their steps interleaved in every order.
NextWorkers ==
    \/ WorkersIdle /\ \E key \in CounterKeys, value \in SetValues : Set(key, value)
    \/ WorkersIdle /\ \E keys \in KeyLists(CounterKeys) : Del(keys)
    \/ WorkersIdle /\ \E key \in CounterKeys, expire \in ExpireArgs : Expire(key, expire)
    \/ Tick
    \/ Spawn
    \/ \E w \in Workers : WLock(w)
    \/ \E w \in Workers : WRead(w)
    \/ \E w \in Workers : WWrite(w)
    \/ \E w \in Workers : WReturn(w)

SpecWorkers == Init /\ [][NextWorkers]_vars

\* ------------------------------------------------------------ requests to try_from

\* The same text in lower case, and with a capital first letter only.
to_lowercase(s) ==
    [i \in 1..Len(s) |->
        IF \E j \in 1..26 : UpperCase[j] = s[i]
        THEN LowerCase[CHOOSE j \in 1..26 : UpperCase[j] = s[i]]
        ELSE s[i]]

Capitalised(s) ==
    IF s = <<>> THEN s ELSE to_uppercase(<<Head(s)>>) \o to_lowercase(Tail(s))

\* A name in the letter cases a client may send it in.
Cases(name) == {to_uppercase(name), to_lowercase(name), Capitalised(name)}

\* The names try_from has an arm for, and two it has none for.
CommandNames == {Name[f] : f \in DOMAIN Name} \cup {<<"F", "O", "O">>, <<>>}

\* What may follow the command name: strings of both kinds, and values that
\* are no strings.
Args == {BulkString(Some(<<"k">>)), SimpleString(<<"v">>), Integer(1), BulkString(None)}

ArgLists == UNION {[1..n -> Args] : n \in 0..MaxArgs}

\* The values a connection may hand to try_from: request arrays led by a
\* name, and values that are no such array.
Requests ==
    {Array(Some(<<BulkString(Some(name))>> \o args)) :
        name \in UNION {Cases(n) : n \in CommandNames}, args \in ArgLists}
    \cup {Array(None), Array(Some(<<>>)), SimpleString(Name.PING), Integer(1),
          BulkString(Some(Name.PING)), BulkString(None),
          Array(Some(<<SimpleString(Name.PING)>>)), Array(Some(<<Integer(1)>>)),
          Array(Some(<<BulkString(None), BulkString(Some(<<"k">>))>>))}

ParserIdle == request = NoReply /\ parsed = NoReply /\ earlier = NoReply

\* A decoded value is about to be parsed.
NewRequest ==
    /\ ParserIdle
    /\ \E value \in Requests : request' = value
    /\ UNCHANGED <<storage, poisoned, now, build, lastCmd, lastReply, pre, incrRun,
                   codecVars, workerVars, parsed, earlier, serverVars, handlerVars, streamVars>>

\* Command::try_from(value)
TryFrom ==
    /\ request # NoReply
    /\ parsed = NoReply
    /\ parsed' = try_from(request)
    /\ UNCHANGED <<storage, poisoned, now, build, lastCmd, lastReply, pre, incrRun,
                   codecVars, workerVars, request, earlier, serverVars, handlerVars, streamVars>>

\* The request is led by a name.
LedByName(value) ==
    /\ value.tag = "Array"
    /\ value.arr.some
    /\ value.arr.val # <<>>
    /\ value.arr.val[1].tag = "BulkString"
    /\ value.arr.val[1].bulk.some

\* The next request is the last one again with its name in another letter
\* case.
SameInOtherCase ==
    /\ parsed # NoReply
    /\ earlier = NoReply
    /\ LedByName(request)
    /\ \E name \in Cases(request.arr.val[1].bulk.val) \ {request.arr.val[1].bulk.val} :
          request' = Array(Some(<<BulkString(Some(name))>> \o Tail(request.arr.val)))
    /\ earlier' = [request |-> request, parsed |-> parsed]
    /\ parsed' = NoReply
    /\ UNCHANGED <<storage, poisoned, now, build, lastCmd, lastReply, pre, incrRun,
                   codecVars, workerVars, serverVars, handlerVars, streamVars>>

NextCommand == NewRequest \/ TryFrom \/ SameInOtherCase

SpecCommand == Init /\ [][NextCommand]_vars

\* ------------------------------------------------------------ main: the server loop

\* s.split(" "): the pieces between the spaces, empty pieces included.
RECURSIVE split(_)
split(s) ==
    LET spaces == {i \in 1..Len(s) : s[i] = " "}
        first == CHOOSE i \in spaces : \A j \in spaces : i <= j
    IN  IF spaces = {} THEN <<s>>
        ELSE <<SubSeq(s, 1, first - 1)>> \o split(SubSeq(s, first + 1, Len(s)))

\* .map(|part| format!("${}\r\n{}\r\n", part.len(), part)).fold(...)
RECURSIVE bulk_parts(_)
bulk_parts(parts) ==
    IF parts = <<>> THEN <<>>
    ELSE <<"$">> \o UnsignedToString(Len(Head(parts))) \o CRLF \o Head(parts) \o CRLF
            \o bulk_parts(Tail(parts))

RespString(raw_str, tokens) == [raw_str |-> raw_str, tokens |-> tokens]

from_string(s) ==
    LET collected == split(s)
    IN  RespString(<<"*">> \o UnsignedToString(Len(collected)) \o CRLF \o bulk_parts(collected),
                   collected)

simple_from_string(s) == RespString(<<"+">> \o s \o CRLF, <<s>>)

bulk_from_string(s) ==
    RespString(<<"$">> \o UnsignedToString(Len(s)) \o CRLF \o s \o CRLF, <<s>>)

\* The result, or the panic of todo!() when the text is no i64.
integer_from_string(s) ==
    LET num == parse_i64(s)
    IN  IF num.ok THEN Ok(RespString(<<":">> \o to_string(num.val) \o CRLF, <<s>>))
        ELSE Err("panic")

\* .map(|simple| simple_from_string(simple).to_string()).collect().join("\r\n")
RECURSIVE join_simple(_)
join_simple(strings) ==
    IF strings = <<>> THEN <<>>
    ELSE IF Len(strings) = 1 THEN simple_from_string(Head(strings)).raw_str
    ELSE simple_from_string(Head(strings)).raw_str \o CRLF \o join_simple(Tail(strings))

strings_to_array(strings) ==
    RespString(<<"*">> \o UnsignedToString(Len(strings)) \o CRLF \o join_simple(strings),
               Append(strings, CRLF))

KEYS == <<"K", "E", "Y", "S">>

\* RespString::to_command: the kind of the command, or the panic of
\* panic!("not implemented"); split never yields zero tokens, so expect()
\* returns.
to_command(tokens) ==
    LET typ == Head(tokens)
    IN  CASE typ = Name.SET -> Ok("Set")
          [] typ = Name.GET -> Ok("Get")
          [] typ = Name.PING -> Ok("Ping")
          [] typ = Name.DEL -> Ok("Del")
          [] typ = Name.EXISTS -> Ok("Exists")
          [] typ = KEYS -> Ok("Keys")
          [] OTHER -> Err("panic")

WRONG_NUMBER_OF_ARGUMENTS ==
    <<"(", "e", "r", "r", "o", "r", ")", " ", "E", "R", "R", " ", "w", "r", "o", "n",
      "g", " ", "n", "u", "m", "b", "e", "r", " ", "o", "f", " ", "a", "r", "g", "u",
      "m", "e", "n", "t", "s", " ", "f", "o", "r", " ", "c", "o", "m", "m", "a", "n",
      "d">>

NIL == <<"(", "n", "i", "l", ")">>

\* How many of the keys the map holds.
RECURSIVE contained(_, _)
contained(data, keys) ==
    IF keys = <<>> THEN 0
    ELSE (IF Head(keys) \in DOMAIN data THEN 1 ELSE 0) + contained(data, Tail(keys))

\* The Del arm's for_each: each key the map holds is removed and counted.
RECURSIVE remove_each(_, _, _)
remove_each(data, keys, deleted) ==
    IF keys = <<>> THEN [data |-> data, deleted |-> deleted]
    ELSE IF Head(keys) \in DOMAIN data
    THEN remove_each(Remove(data, Head(keys)), Tail(keys), deleted + 1)
    ELSE remove_each(data, Tail(keys), deleted)

\* What handle returns, with the handler's map as handle leaves it.
Handled(result, data) ==
    IF result.ok THEN [ok |-> TRUE, val |-> result.val, data |-> data]
    ELSE [ok |-> FALSE, err |-> "panic", data |-> data]

\* Mutant of handle_del: the keys are counted and left in the map.
handle_del_counts_only(data, keys) ==
    Handled(integer_from_string(UnsignedToString(contained(data, keys))), data)

\* The Del arm of RespHandler::handle.
handle_del(data, keys) ==
    LET removed == remove_each(data, keys, 0)
    IN  Handled(integer_from_string(UnsignedToString(removed.deleted)), removed.data)

\* RespHandler::handle on the handler's map: the RespString it returns, or
\* the panic it ends in, and the map afterwards.  The patterns of the model
\* hold no glob metacharacter: Pattern::new(..).unwrap() returns, and the
\* pattern matches the key that is equal to it.
handle(data, str_command) ==
    LET tokens == str_command.tokens
        command == to_command(tokens)
        wrong == Handled(Ok(simple_from_string(WRONG_NUMBER_OF_ARGUMENTS)), data)
    IN  IF ~command.ok THEN Handled(Err("panic"), data)
        ELSE CASE command.val = "Get" ->
                    IF Len(tokens) # 2 THEN wrong
                    ELSE IF tokens[2] \in DOMAIN data
                    THEN Handled(Ok(simple_from_string(data[tokens[2]])), data)
                    ELSE Handled(Ok(simple_from_string(NIL)), data)
               [] command.val = "Set" ->
                    IF Len(tokens) # 3 THEN wrong
                    ELSE Handled(Ok(simple_from_string(OK)), Insert(data, tokens[2], tokens[3]))
               [] command.val = "Ping" ->
                    IF Len(tokens) = 1 THEN Handled(Ok(simple_from_string(PONG)), data)
                    ELSE IF Len(tokens) = 2 THEN Handled(Ok(bulk_from_string(tokens[2])), data)
                    ELSE Handled(Err("panic"), data)
               [] command.val = "Del" -> handle_del(data, Tail(tokens))
               [] command.val = "Exists" ->
                    Handled(integer_from_string(UnsignedToString(contained(data, Tail(tokens)))),
                            data)
               [] command.val = "Keys" ->
                    IF Len(tokens) # 2 THEN wrong
                    ELSE IF tokens[2] \in DOMAIN data
                    THEN Handled(Ok(strings_to_array(<<tokens[2]>>)), data)
                    ELSE Handled(Ok(strings_to_array(<<>>)), data)

\* The words a connection sends, separated by single spaces.
Words ==
    {Name.PING, Name.GET, Name.SET, Name.DEL, Name.EXISTS, KEYS,
     <<"F", "O", "O">>, <<"k">>, <<>>}

RECURSIVE Spaced(_)
Spaced(words) ==
    IF Len(words) = 1 THEN Head(words) ELSE Head(words) \o <<" ">> \o Spaced(Tail(words))

\* What read_to_string finds in an accepted connection.
Bufs == {Spaced(words) : words \in UNION {[1..n -> Words] : n \in 1..MaxTokens}}

\* main is in listener.incoming(), waiting for the next connection.
Listening == running /\ buf = None /\ printed = None

\* One turn of the loop over listener.incoming() for an accepted connection:
\* the stream is read to its end, the text is handled by a new RespHandler
\* and the result is printed; the stream is dropped at the end of the turn.
\* A panic in handle unwinds main: the process ends.
Serve ==
    /\ Listening
    /\ \E text \in Bufs :
          LET result == handle(EmptyMap, from_string(text))
              tokens == split(text)
          IN  /\ buf' = Some(text)
              /\ printed' = IF result.ok THEN Some(result.val.raw_str) ELSE Panic
              /\ running' = result.ok
              /\ connected' = FALSE
              /\ sent' = <<>>
              /\ acked' = IF result.ok /\ Head(tokens) = Name.SET /\ Len(tokens) = 3
                          THEN Some([key |-> tokens[2], value |-> tokens[3]])
                          ELSE IF Head(tokens) = Name.GET THEN acked
                          ELSE None
    /\ UNCHANGED <<storage, poisoned, now, build, lastCmd, lastReply, pre, incrRun,
                   codecVars, workerVars, parserVars, handlerVars, streamVars>>

\* listener.incoming() yields an error: Err(_) => todo!() panics.
AcceptFails ==
    /\ Listening
    /\ buf' = None
    /\ printed' = Panic
    /\ running' = FALSE
    /\ connected' = FALSE
    /\ UNCHANGED <<sent, acked>>
    /\ UNCHANGED <<storage, poisoned, now, build, lastCmd, lastReply, pre, incrRun,
                   codecVars, workerVars, parserVars, handlerVars, streamVars>>

\* The loop comes round: main waits in listener.incoming() again.
NextConnection ==
    /\ running
    /\ buf # None
    /\ buf' = None
    /\ printed' = None
    /\ UNCHANGED <<storage, poisoned, now, build, lastCmd, lastReply, pre, incrRun,
                   codecVars, workerVars, parserVars, running, connected, sent, acked,
                   handlerVars, streamVars>>

NextServer == Serve \/ AcceptFails \/ NextConnection

SpecServer == Init /\ [][NextServer]_vars

\* ------------------------------------------------------------ one RespHandler

\* The keys one handler is asked to store, as many as a count the model's
\* i64 can print, and a key it is never asked to store.
KeyWords == <<<<"k">>, <<"j">>, <<"i">>, <<"h">>>>

StoredKeys == {KeyWords[i] : i \in 1..Min(Min(MaxKeys, I64_MAX), Len(KeyWords))}

AbsentKey == <<"x">>

HandlerKeyLists == UNION {[1..n -> StoredKeys \cup {AbsentKey}] : n \in 1..MaxKeys}

\* The commands handed to one handler, as the texts from_string is given.
HandlerTexts ==
    {Spaced(<<Name.SET, key, value>>) : key \in StoredKeys, value \in {<<"v">>, <<"w">>}}
        \cup {Spaced(<<Name.DEL>> \o keys) : keys \in HandlerKeyLists}
        \cup {Spaced(<<Name.EXISTS>> \o keys) : keys \in HandlerKeyLists}
        \cup {Spaced(<<Name.GET, key>>) : key \in StoredKeys \cup {AbsentKey}}
        \cup {Spaced(<<KEYS, key>>) : key \in StoredKeys \cup {AbsentKey}}
        \cup {Name.PING, Name.DEL, Name.GET, <<"F", "O", "O">>}

\* handler.handle(RespString::from_string(text)) on a handler that has not
\* panicked.
Handle ==
    /\ answer # Panic
    /\ \E text \in HandlerTexts :
          LET str_command == from_string(text)
              result == handle(handler, str_command)
          IN  /\ handler' = result.data
              /\ asked' = Some(str_command.tokens)
              /\ answer' = IF result.ok THEN Some(result.val.raw_str) ELSE Panic
              /\ had' = handler
    /\ UNCHANGED <<storage, poisoned, now, build, lastCmd, lastReply, pre, incrRun,
                   codecVars, workerVars, parserVars, serverVars, streamVars>>

NextHandler == Handle

SpecHandler == Init /\ [][NextHandler]_vars

\* ------------------------------------------------------------ the claims

AllKeys == Keys \cup CounterKeys

\* The key has a deadline in s and the deadline is before t.
PastDue(s, key, t) == key \in DOMAIN s.expires /\ s.expires[key] < t

\* The key has a value in s that is not expired at t.
Live(s, key, t) == key \in DOMAIN s.data /\ ~PastDue(s, key, t)

\* The last command took the storage lock and ran its arm.
Ran(op) == lastCmd.op = op /\ ~pre.poisoned

\* C1: from every reachable store, Set{key,value} replies SimpleString("OK")
\* and a Get{key} executed immediately afterwards replies BulkString(value).
\* Stated of commands that find the Mutex healthy.
C1_SetThenGet ==
    [][(lastCmd.op = "Set" /\ ~poisoned) =>
          /\ lastReply = SimpleString(OK)
          /\ (lastCmd'.op = "Get" /\ lastCmd'.key = lastCmd.key) =>
                lastReply' = BulkString(Some(lastCmd.value))]_vars

\* C2: Storage.get on a key whose deadline has passed returns absent and leaves
\* the key in neither mapping; on any other key it returns the stored value if
\* present and changes nothing.
C2_GetDropsExpired ==
    Ran("Get") =>
        IF PastDue(pre.storage, lastCmd.key, now)
        THEN /\ lastReply = BulkString(None)
             /\ lastCmd.key \notin DOMAIN storage.data
             /\ lastCmd.key \notin DOMAIN storage.expires
        ELSE /\ lastReply = BulkString(IF lastCmd.key \in DOMAIN pre.storage.data
                                       THEN Some(pre.storage.data[lastCmd.key]) ELSE None)
             /\ storage = pre.storage

\* C3: Storage.has(key) is true if and only if the key has a stored value that
\* is not expired.
C3_HasIsLive == \A key \in AllKeys : has(storage, key) <=> Live(storage, key, now)

\* C4: Storage.get_ttl returns -2 for a key that does not exist (a key whose
\* deadline has passed included), -1 for a key with no deadline, and otherwise
\* the whole seconds left, never negative; it returns a value in every state.
C4_TtlValue ==
    Ran("TTL") =>
        lastReply = Integer(IF ~Live(pre.storage, lastCmd.key, now) THEN -2
                            ELSE IF lastCmd.key \notin DOMAIN pre.storage.expires THEN -1
                            ELSE pre.storage.expires[lastCmd.key] - now)

\* C5: after set_expire(k, s) with s >= 0 on an existing key, get_ttl(k) is in
\* 0..s at once; while only the clock advances it never increases, and it is -2
\* once the clock is past the deadline.
C5_TtlCountsDown ==
    [][/\ (lastCmd'.op = "Expire" /\ lastReply' = SimpleString(<<"1">>)
             /\ parse_i64(lastCmd'.expire).val >= 0) =>
            LET r == get_ttl(storage', lastCmd'.key, now')
            IN  ~r.panic /\ r.val \in 0..parse_i64(lastCmd'.expire).val
       /\ (now' > now) =>
            \A key \in AllKeys :
                (Live(storage, key, now) /\ key \in DOMAIN storage.expires) =>
                    LET a == get_ttl(storage, key, now)
                        b == get_ttl(storage', key, now')
                    IN  /\ ~b.panic
                        /\ b.val <= a.val
                        /\ PastDue(storage', key, now') => b.val = -2]_vars

\* C6: set_expire(key, seconds) with seconds < 0 removes the key from both
\* mappings; with seconds >= 0 it makes the key's deadline now + seconds,
\* replacing any earlier one, and leaves the value mapping unchanged.
C6_SetExpire ==
    (Ran("Expire") /\ lastReply = SimpleString(<<"1">>)) =>
        LET seconds == parse_i64(lastCmd.expire).val
        IN  IF seconds < 0
            THEN /\ lastCmd.key \notin DOMAIN storage.data
                 /\ lastCmd.key \notin DOMAIN storage.expires
            ELSE /\ lastCmd.key \in DOMAIN storage.expires
                 /\ storage.expires[lastCmd.key] = now + seconds
                 /\ storage.data = pre.storage.data

\* A set_expire with seconds >= 0 has replaced an earlier, different deadline.
C6_Witness ==
    /\ Ran("Expire")
    /\ lastReply = SimpleString(<<"1">>)
    /\ parse_i64(lastCmd.expire).val >= 0
    /\ lastCmd.key \in DOMAIN pre.storage.expires
    /\ pre.storage.expires[lastCmd.key] # storage.expires[lastCmd.key]

\* C7: set(key, value) inserts or overwrites the value and leaves the expiry
\* mapping as it was: a deadline stays, and a key without one still has none.
C7_SetKeepsExpiry ==
    Ran("Set") =>
        /\ DOMAIN storage.data = DOMAIN pre.storage.data \cup {lastCmd.key}
        /\ storage.data[lastCmd.key] = lastCmd.value
        /\ \A key \in DOMAIN pre.storage.data \ {lastCmd.key} :
               storage.data[key] = pre.storage.data[key]
        /\ storage.expires = pre.storage.expires

\* A set has overwritten the value of a key that has a deadline.
C7_Witness ==
    /\ Ran("Set")
    /\ lastCmd.key \in DOMAIN pre.storage.expires
    /\ lastCmd.key \in DOMAIN pre.storage.data
    /\ pre.storage.data[lastCmd.key] # lastCmd.value
    /\ lastCmd.key \in DOMAIN storage.expires

\* C8: clear(), and the FlushAll command, which replies SimpleString("OK"),
\* empties both mappings: afterwards no key has a value and none a deadline.
C8_ClearEmptiesBoth ==
    Ran("FlushAll") =>
        /\ lastReply = SimpleString(OK)
        /\ DOMAIN storage.data = {}
        /\ DOMAIN storage.expires = {}

\* C9: immediately after clear(), has(k) is false for every key k, whatever
\* the store held; a second clear() leaves that so.
C9_ClearThenHas ==
    Ran("FlushAll") =>
        \A key \in AllKeys : ~has(storage, key) /\ ~has(clear(storage), key)

\* A clear has run on a store that held a value.
C9_Witness == Ran("FlushAll") /\ DOMAIN pre.storage.data # {} /\ lastReply = SimpleString(OK)

\* C10: n Incr commands in a row on a key absent from the store reply
\* Integer 1, 2, ..., n, and after each the stored value is the decimal string
\* of the reply.  Stated of commands that find the Mutex healthy, for n up to
\* I64_MAX.
C10_IncrCountsUp ==
    (lastCmd.op = "Incr" /\ ~poisoned /\ incrRun \in 1..I64_MAX) =>
        /\ lastReply = Integer(incrRun)
        /\ lastCmd.key \in DOMAIN storage.data
        /\ storage.data[lastCmd.key] = to_string(incrRun)

NumericOps == {"IncrBy", "Incr", "DecrBy", "Decr"}

\* The last command is a numeric one whose amount argument, or whose stored
\* value, is not a decimal integer of the i64 range.
BadOperand ==
    /\ lastCmd.op \in NumericOps
    /\ \/ lastCmd.op \in {"IncrBy", "DecrBy"} /\ ~parse_i64(lastCmd.value).ok
       \/ /\ Live(pre.storage, lastCmd.key, now)
          /\ ~parse_i64(pre.storage.data[lastCmd.key]).ok

\* C11: Incr, Decr, IncrBy and DecrBy reply
\* Error("ERR value is not an integer or out of range") when the stored value
\* or the amount argument is not a decimal i64, and then both mappings are as
\* they were.
C11_NumericErrors ==
    BadOperand => lastReply = Error(ERR_NOT_AN_INTEGER) /\ storage = pre.storage

\* The exact sum or difference the last numeric command is asked for, when
\* both operands are integers.
ExactResult ==
    LET stored == IF Live(pre.storage, lastCmd.key, now)
                  THEN parse_i64(pre.storage.data[lastCmd.key]).val ELSE 0
        amount == IF lastCmd.op \in {"IncrBy", "DecrBy"}
                  THEN parse_i64(lastCmd.value).val ELSE 1
    IN  operation(lastCmd.op, stored, amount)

\* C12: Incr, Decr, IncrBy and DecrBy never panic and never store a wrapped
\* value: when the i64 addition or subtraction would overflow, the reply is an
\* Error and the stored value is unchanged.  Stated of commands that find the
\* Mutex healthy.
C12_NoOverflow ==
    (lastCmd.op \in NumericOps /\ ~pre.poisoned /\ ~BadOperand
        /\ (ExactResult < I64_MIN \/ ExactResult > I64_MAX)) =>
            /\ lastReply.tag = "Error"
            /\ storage.data = pre.storage.data

\* C13: Expire{key,seconds} replies an Error and changes nothing if seconds is
\* not an integer; otherwise replies SimpleString("0") and changes nothing if
\* the key does not exist; otherwise applies set_expire and replies
\* SimpleString("1"), after which TTL key is in 0..seconds for seconds >= 0.
\* Stated of commands that find the Mutex healthy.
C13_Expire ==
    Ran("Expire") =>
        LET seconds == parse_i64(lastCmd.expire)
        IN  IF ~seconds.ok
            THEN lastReply.tag = "Error" /\ storage = pre.storage
            ELSE IF ~Live(pre.storage, lastCmd.key, now)
            THEN lastReply = SimpleString(<<"0">>) /\ storage = pre.storage
            ELSE /\ lastReply = SimpleString(<<"1">>)
                 /\ storage = set_expire(pre.storage, lastCmd.key, seconds.val, now)
                 /\ seconds.val >= 0 =>
                        LET ttl == get_ttl(storage, lastCmd.key, now)
                        IN  ~ttl.panic /\ ttl.val \in 0..seconds.val

\* C14: Exists{keys} replies the Integer number of listed keys that are
\* present in the store; a key never set, deleted or logically absent counts 0.
\* Stated of commands that find the Mutex healthy.
C14_ExistsCounts ==
    Ran("Exists") =>
        lastReply = Integer(Cardinality({i \in 1..Len(lastCmd.keys) :
                                            Live(pre.storage, lastCmd.keys[i], now)}))

\* The BulkString of the key's value in s at t, null if the key is absent.
ValueOf(s, key, t) == BulkString(IF Live(s, key, t) THEN Some(s.data[key]) ELSE None)

\* C15: MGet{keys} with two or more keys replies an Array with one BulkString
\* per requested key, in request order, each the key's value or null if
\* absent; with exactly one key it replies that BulkString unwrapped.
C15_MGetInOrder ==
    lastCmd.op = "MGet" =>
        LET keys == lastCmd.keys
        IN  lastReply = IF Len(keys) = 1 THEN ValueOf(pre.storage, keys[1], now)
                        ELSE Array(Some([i \in 1..Len(keys) |->
                                            ValueOf(pre.storage, keys[i], now)]))

\* C16: Del{keys} removes every listed key from the value mapping and replies
\* SimpleString("OK") whether or not any key existed; a Get on a listed key
\* right afterwards replies the null BulkString, and keys not listed keep
\* their values.
C16_DelRemoves ==
    [][lastCmd.op = "Del" =>
          LET listed == {lastCmd.keys[i] : i \in 1..Len(lastCmd.keys)}
          IN  /\ lastReply = SimpleString(OK)
              /\ DOMAIN storage.data = DOMAIN pre.storage.data \ listed
              /\ \A key \in DOMAIN storage.data : storage.data[key] = pre.storage.data[key]
              /\ (lastCmd'.op = "Get" /\ lastCmd'.key \in listed) =>
                    lastReply' = BulkString(None)]_vars

\* C17: Get on a key with no stored value replies BulkString(None), whose
\* encoding is exactly $-1\r\n, and leaves the value mapping unchanged.
C17_GetMissing ==
    (lastCmd.op = "Get" /\ lastCmd.key \notin DOMAIN pre.storage.data) =>
        /\ lastReply = BulkString(None)
        /\ write_resp(lastReply) = <<"$", "-", "1", CR, LF>>
        /\ storage.data = pre.storage.data

\* C19: round trip.  For every value v (SimpleString and Error text without
\* CR or LF, any Integer, null or non-null BulkString, null or non-null Array,
\* nested) read_resp on the bytes write_resp(v) wrote returns exactly v, tag
\* included, and leaves nothing unread.
C19_RoundTrip ==
    (written # NoReply /\ decoded # NoReply /\ decoded.input = write_resp(written)) =>
        decoded.result = ReadOk(written, <<>>)

\* A nested Array that holds an Error and a BulkString with an LF in its data
\* was written and read back.
C19_Witness ==
    /\ written = Array(Some(<<Array(Some(<<BulkString(Some(<<"a", LF>>))>>)), Error(<<"a">>)>>))
    /\ decoded # NoReply
    /\ decoded.input = write_resp(written)
    /\ decoded.result.ok

\* The first line of the bytes, type byte included, ends in an LF that no CR
\* precedes.
FirstLineBareLF(bytes) ==
    /\ Len(bytes) >= 2
    /\ bytes[1] \in {"+", "-", ":", "$", "*"}
    /\ \E i \in 2..Len(bytes) :
          /\ bytes[i] = LF
          /\ bytes[i - 1] # CR
          /\ \A j \in 1..(i - 1) : bytes[j] # LF

\* C20: decoding fails whenever a scalar line (SimpleString, Error, Integer)
\* or a length line (BulkString, Array) is terminated by a bare LF instead of
\* CRLF; no value is returned for such input.
C20_BareLFRejected ==
    (decoded # NoReply /\ FirstLineBareLF(decoded.input)) => ~decoded.result.ok

\* The stream ends inside a frame: the bytes are the beginning of the
\* encoding of some value, the type byte at least, and stop before its end.
Truncated(bytes) ==
    /\ bytes # <<>>
    /\ \E v \in Values :
          /\ Len(bytes) < Len(write_resp(v))
          /\ SubSeq(write_resp(v), 1, Len(bytes)) = bytes

\* C21: decoding fails whenever the stream ends before one complete value has
\* been read (after the type byte, inside a scalar or length line before its
\* CRLF, inside bulk data, before all the declared elements of an Array); no
\* value is returned that was built from a partial frame.
C21_TruncatedFails ==
    (decoded # NoReply /\ Truncated(decoded.input)) => ~decoded.result.ok

\* The bytes begin with "$" or "*" and a length line ended by CRLF.
HasLengthLine(bytes) ==
    /\ Len(bytes) >= 3
    /\ bytes[1] \in {"$", "*"}
    /\ \E i \in 2..(Len(bytes) - 1) : bytes[i] = CR /\ bytes[i + 1] = LF

\* Where the CRLF of the length line begins.
LengthLineEnd(bytes) ==
    CHOOSE i \in 2..(Len(bytes) - 1) :
        /\ bytes[i] = CR /\ bytes[i + 1] = LF
        /\ \A j \in 2..(i - 1) : ~(bytes[j] = CR /\ bytes[j + 1] = LF)

\* The length prefix: what stands between the type byte and the CRLF.
LengthPrefix(bytes) == SubSeq(bytes, 2, LengthLineEnd(bytes) - 1)

\* What follows the CRLF of the length line.
AfterLengthLine(bytes) == SubSeq(bytes, LengthLineEnd(bytes) + 2, Len(bytes))

\* A decimal number: digits, with or without a sign in front.
NumericText(t) ==
    LET ds == IF t # <<>> /\ Head(t) \in {"-", "+"} THEN Tail(t) ELSE t
    IN  ds # <<>> /\ \A i \in 1..Len(ds) : IsDigit(ds[i])

\* The number a decimal text denotes.
NumberOf(t) ==
    IF Head(t) = "-" THEN -Magnitude(Tail(t))
    ELSE IF Head(t) = "+" THEN Magnitude(Tail(t))
    ELSE Magnitude(t)

\* C22: decoding a BulkString or an Array fails when the length prefix is not
\* a number, or is negative and not -1; a length of -1 yields the null
\* BulkString or the null Array and leaves unread everything after the CRLF
\* of the length line.
C22_LengthPrefix ==
    (decoded # NoReply /\ HasLengthLine(decoded.input)) =>
        LET t == LengthPrefix(decoded.input)
            null == IF decoded.input[1] = "$" THEN BulkString(None) ELSE Array(None)
        IN  /\ ~NumericText(t) => ~decoded.result.ok
            /\ (NumericText(t) /\ NumberOf(t) < -1) => ~decoded.result.ok
            /\ (NumericText(t) /\ NumberOf(t) = -1) =>
                  decoded.result = ReadOk(null, AfterLengthLine(decoded.input))

\* A null Array was read with bytes after it, all of them left in the stream.
C22_Witness ==
    /\ decoded # NoReply
    /\ decoded.input = <<"*", "-", "1", CR, LF, "a", CR, LF>>
    /\ decoded.result = ReadOk(Array(None), <<"a", CR, LF>>)
    /\ wire = <<"a", CR, LF>>

\* C23: the declared length of a BulkString matches its content exactly:
\* decoding succeeds only if CRLF stands right after exactly the declared
\* number of data bytes, and then returns those bytes; it fails, returning no
\* value, when the data is longer or shorter than declared.
C23_ExactLength ==
    (/\ decoded # NoReply
     /\ HasLengthLine(decoded.input)
     /\ decoded.input[1] = "$"
     /\ NumericText(LengthPrefix(decoded.input))
     /\ NumberOf(LengthPrefix(decoded.input)) >= 0) =>
        LET n == NumberOf(LengthPrefix(decoded.input))
            data == AfterLengthLine(decoded.input)
            exact == Len(data) >= n + 2 /\ data[n + 1] = CR /\ data[n + 2] = LF
        IN  /\ decoded.result.ok <=> exact
            /\ decoded.result.ok =>
                  decoded.result = ReadOk(BulkString(Some(SubSeq(data, 1, n))),
                                          SubSeq(data, n + 3, Len(data)))

\* Two data bytes under a declared length of one: no value was returned.
C23_Witness ==
    /\ decoded # NoReply
    /\ decoded.input = <<"$", "1", CR, LF, "a", "a", CR, LF>>
    /\ ~decoded.result.ok

\* The decimal digits of a natural number, without leading zeros.
Decimal(n) ==
    CHOOSE ds \in UNION {[1..k -> {Digits[i] : i \in 1..Len(Digits)}] : k \in 1..2} :
        /\ Magnitude(ds) = n
        /\ Len(ds) > 1 => ds[1] # "0"

\* The canonical wire form of a value, as the protocol lays it down.
RECURSIVE CanonicalForm(_)
CanonicalForm(v) ==
    LET RECURSIVE Elements_(_, _)
        Elements_(items, i) ==
            IF i > Len(items) THEN <<>>
            ELSE CanonicalForm(items[i]) \o Elements_(items, i + 1)
        Signed(n) == IF n < 0 THEN <<"-">> \o Decimal(-n) ELSE Decimal(n)
    IN  CASE v.tag = "SimpleString" -> <<"+">> \o v.text \o <<CR, LF>>
          [] v.tag = "Error" -> <<"-">> \o v.msg \o <<CR, LF>>
          [] v.tag = "Integer" -> <<":">> \o Signed(v.n) \o <<CR, LF>>
          [] v.tag = "BulkString" /\ ~v.bulk.some -> <<"$", "-", "1", CR, LF>>
          [] v.tag = "BulkString" /\ v.bulk.some ->
                <<"$">> \o Decimal(Len(v.bulk.val)) \o <<CR, LF>> \o v.bulk.val \o <<CR, LF>>
          [] v.tag = "Array" /\ ~v.arr.some -> <<"*", "-", "1", CR, LF>>
          [] v.tag = "Array" /\ v.arr.some ->
                <<"*">> \o Decimal(Len(v.arr.val)) \o <<CR, LF>> \o Elements_(v.arr.val, 1)

\* C24: write_resp produces the canonical wire form of every value:
\* +text\r\n for a SimpleString, -text\r\n for an Error, :digits\r\n for an
\* Integer, $len\r\ndata\r\n with len the byte length of the data (or $-1\r\n
\* for null) for a BulkString, and *count\r\n followed by the encodings of
\* the count elements in order (or *-1\r\n for null) for an Array.
C24_CanonicalForm ==
    (written # NoReply /\ decoded = NoReply) => wire = CanonicalForm(written)

\* An Array of a null BulkString and a negative Integer was written.
C24_Witness ==
    /\ written = Array(Some(<<BulkString(None), Integer(-1)>>))
    /\ decoded = NoReply
    /\ wire = <<"*", "2", CR, LF, "$", "-", "1", CR, LF, ":", "-", "1", CR, LF>>

\* The command families of the arity table and the element count of each,
\* the command name included.
Families ==
    {Name.GET, Name.SET, Name.DEL, Name.MGET, Name.EXISTS, Name.INCR, Name.DECR,
     Name.TTL, Name.INCRBY, Name.DECRBY, Name.EXPIRE, Name.PING, Name.FLUSHALL}

AtLeastTwo == {Name.DEL, Name.MGET, Name.EXISTS}

Arity(family) ==
    CASE family \in {Name.GET, Name.INCR, Name.DECR, Name.TTL} -> 2
      [] family \in {Name.SET, Name.INCRBY, Name.DECRBY, Name.EXPIRE} -> 3
      [] family \in {Name.PING, Name.FLUSHALL} -> 1
      [] family \in AtLeastTwo -> 2

\* The name a request is led by, as it was sent, and the name it is a
\* spelling of.
NameSent(value) == value.arr.val[1].bulk.val

\* Every name of the model with the letter cases it is sent in.
Spellings == [name \in CommandNames |-> Cases(name)]

NameMeant(value) == CHOOSE name \in CommandNames : NameSent(value) \in Spellings[name]

\* A SimpleString or a non-null BulkString.
IsString(value) ==
    value.tag = "SimpleString" \/ (value.tag = "BulkString" /\ value.bulk.some)

\* The arguments after the command name are all strings.
StringArgs(value) ==
    \A i \in 2..Len(value.arr.val) : IsString(value.arr.val[i])

OutsideFamilies == CommandNames \ Families

C27_CaseInsensitive ==
    (earlier # NoReply /\ parsed # NoReply) =>
        /\ parsed.ok = earlier.parsed.ok
        /\ parsed.ok => parsed.val = earlier.parsed.val
        /\ ~parsed.ok => parsed.err.kind = earlier.parsed.err.kind

\* SET in upper case and then in lower case, with the same key and value,
\* gave the same Command.
C27_Witness ==
    /\ earlier # NoReply
    /\ earlier.request = Array(Some(<<BulkString(Some(<<"S", "E", "T">>)),
                                      BulkString(Some(<<"k">>)), SimpleString(<<"v">>)>>))
    /\ request = Array(Some(<<BulkString(Some(<<"s", "e", "t">>)),
                              BulkString(Some(<<"k">>)), SimpleString(<<"v">>)>>))
    /\ parsed = Ok([op |-> "Set", key |-> <<"k">>, value |-> <<"v">>])
    /\ earlier.parsed = parsed

\* C28: parsing fails with the empty-command error when the value is an Array
\* with zero elements or the null Array; no Command is produced in either
\* case.
C28_EmptyCommand ==
    (parsed # NoReply /\ request \in {Array(Some(<<>>)), Array(None)}) =>
        parsed = Err(ParseError("empty command"))

\* The element count of a request led by a family's name satisfies the arity
\* of the family.
AritySatisfied(value) ==
    IF NameMeant(value) \in AtLeastTwo THEN Len(value.arr.val) >= 2
    ELSE Len(value.arr.val) = Arity(NameMeant(value))

CommandErrorIn(text) ==
    LET words == split(text)
        family == to_uppercase(Head(words))
    IN  \/ family \notin Families
        \/ /\ family \in AtLeastTwo
           /\ Len(words) < 2
        \/ /\ family \in Families \ AtLeastTwo
           /\ Len(words) # Arity(family)

\* C30: a command error on a request (unknown command, wrong arity,
\* non-string argument) is always answered with an Error reply; the
\* connection stays open for further requests and the server process keeps
\* running, with no panic on any request content.
C30_CommandErrors ==
    (buf # None /\ CommandErrorIn(buf.val)) =>
        /\ running
        /\ connected
        /\ printed # Panic
        /\ Head(printed.val) = "-"

\* C31: every request received on a connection is answered by exactly one
\* reply value written to that same connection, and the connection loop
\* keeps serving requests until the peer disconnects.
C31_OneReplyPerRequest ==
    (buf # None) =>
        /\ running
        /\ printed # Panic
        /\ sent = printed.val

\* C32: the store is created once, empty, at server start and is shared by
\* all connections: a value written by a SET on one connection is returned
\* by a later GET for that key on a different connection.
C32_SharedStore ==
    (/\ buf # None
     /\ acked # None
     /\ buf.val = Name.GET \o <<" ">> \o acked.val.key) =>
        printed = Some(<<"+">> \o acked.val.value \o CRLF)

\* The keys a list names.
Listed(keys) == {keys[i] : i \in 1..Len(keys)}

\* C33: RespHandler's DEL replies Integer n where n is the number of listed
\* keys that existed and were removed (0 for an undefined key, 1 for one
\* existing key, 3 for three existing keys), and afterwards none of the
\* listed keys exists.
C33_HandlerDel ==
    (asked # None /\ Head(asked.val) = Name.DEL) =>
        LET keys == Listed(Tail(asked.val))
            n == Cardinality(keys \cap DOMAIN had)
        IN  /\ answer = Some(<<":">> \o Decimal(n) \o <<CR, LF>>)
            /\ keys \cap DOMAIN handler = {}
            /\ DOMAIN handler = DOMAIN had \ keys

\* A DEL named one of two stored keys and a key that was never stored: the
\* reply is 1, the stored key it named is gone and the other one is kept.
C33_Witness ==
    /\ asked = Some(<<Name.DEL, <<"k">>, <<"x">>>>)
    /\ DOMAIN had = {<<"k">>, <<"j">>}
    /\ answer = Some(<<":", "1", CR, LF>>)
    /\ DOMAIN handler = {<<"j">>}

\* C34: a key whose deadline has passed is logically absent for Expire:
\* Expire{key,seconds} on such a key replies SimpleString("0") and does not
\* give the key a new deadline, so the expired value does not become
\* readable again.  Stated of commands that find the Mutex healthy.
C34_ExpireOnExpired ==
    (/\ Ran("Expire")
     /\ parse_i64(lastCmd.expire).ok
     /\ lastCmd.key \in DOMAIN pre.storage.data
     /\ PastDue(pre.storage, lastCmd.key, now)) =>
        /\ lastReply = SimpleString(<<"0">>)
        /\ ~Live(storage, lastCmd.key, now)

\* C35: a key re-created after deletion carries no expiry from its earlier
\* life: when a Del that lists k is followed at once by Set{k,v}, both with
\* the Mutex healthy, then whatever deadline k had before the Del, TTL k
\* would reply -1 and Get k returns v at the present time and at every later
\* one.
C35_RecreatedKey ==
    [][(/\ lastCmd.op = "Del"
        /\ lastReply # Panic
        /\ lastCmd'.op = "Set"
        /\ lastReply' # Panic
        /\ \E i \in 1..Len(lastCmd.keys) : lastCmd.keys[i] = lastCmd'.key) =>
           LET k   == lastCmd'.key
               ttl == get_ttl(storage', k, now')
           IN  /\ ~ttl.panic
               /\ ttl.val = -1
               /\ \A t \in now'..(MaxNow + 1) :
                      get(storage', k, t).ret = Some(lastCmd'.value)]_vars

\* C36: in every reachable state of the store, every key that has an entry in
\* the expiry mapping also has an entry in the value mapping.
C36_DeadlineHasValue == DOMAIN storage.expires \subseteq DOMAIN storage.data

\* write_resp of each value of values, one after the other.
RECURSIVE Encodings(_)
Encodings(values) ==
    IF values = <<>> THEN <<>> ELSE write_resp(Head(values)) \o Encodings(Tail(values))

\* C37: decoding reads exactly one value and consumes exactly its bytes: on a
\* reader holding the encoding of v1 immediately followed by the encoding of
\* v2, the first read_resp returns v1 and leaves the encoding of v2, and the
\* second returns v2 and leaves nothing.
C37_OneValuePerRead ==
    (Len(queue) = 2) =>
        /\ \A i \in 1..Len(reads) :
              reads[i] = ReadOk(queue[i], Encodings(SubSeq(queue, i + 1, Len(queue))))
        /\ stream = Encodings(SubSeq(queue, Len(reads) + 1, Len(queue)))

\* A nested Array followed by an Array of one BulkString was written and both
\* were read back.
C37_Witness ==
    /\ queue = <<Array(Some(<<Array(Some(<<SimpleString(OK)>>)), BulkString(Some(<<"a", LF>>))>>)),
                 Array(Some(<<BulkString(Some(<<"a", LF>>))>>))>>
    /\ Len(reads) = 2
    /\ reads[2].ok
    /\ reads[2].val = queue[2]

\* The errors that say the frame is malformed: RespError::ParseError.
MalformedErrors ==
    {"ParseError: Invalid integer", "ParseError: Invalid bulk string length",
     "ParseError: Invalid array length", "ParseError: Missing CRLF",
     "ParseError: Invalid RESP type byte"}

\* The greatest maximum a cap on declared lengths can have and still refuse a
\* length that parses as an i64.
GreatestCap == I64_MAX - 1

\* C38: decoding a BulkString or an Array whose declared length exceeds the
\* codec's maximum fails with a Malformed error before any buffer of the
\* declared size is allocated or any element is read: whatever the maximum
\* is, a frame that declares the greatest i64 fails with a ParseError and
\* nothing after its length line is read.
C38_LengthCap ==
    (/\ decoded # NoReply
     /\ HasLengthLine(decoded.input)
     /\ NumericText(LengthPrefix(decoded.input))
     /\ NumberOf(LengthPrefix(decoded.input)) > GreatestCap) =>
        /\ ~decoded.result.ok
        /\ decoded.result.err \in MalformedErrors
        /\ decoded.result.rest = AfterLengthLine(decoded.input)

\* The value is an Array whose first element is a SimpleString.
LedBySimpleString(value) ==
    /\ value.tag = "Array"
    /\ value.arr.some
    /\ value.arr.val # <<>>
    /\ value.arr.val[1].tag = "SimpleString"

\* C39: the command name may be any string-bearing element: an Array whose
\* first element is SimpleString(name) parses to the same result as the
\* Array with BulkString(name) in its place.
C39_SimpleStringName ==
    (parsed # NoReply /\ LedBySimpleString(request)) =>
        parsed = try_from(Array(Some(<<BulkString(Some(request.arr.val[1].text))>>
                                           \o Tail(request.arr.val))))

\* Every worker's INCR has returned or panicked.
AllDone == \A w \in Workers : pc[w] = "done"

\* C18: each command runs in one critical section on the storage lock, so
\* that when the workers run Incr at once on the same initially absent key,
\* under every interleaving the final stored value is their number and the
\* replies are the integers from 1 to that number, none twice, none missing.
\* Stated of workers that begin with the Mutex healthy.
C18_AtomicIncr ==
    (AllDone /\ ~spawnedOn.poisoned /\ WorkerKey \notin DOMAIN spawnedOn.storage.data) =>
        /\ WorkerKey \in DOMAIN storage.data
        /\ storage.data[WorkerKey] = to_string(MaxWorkers)
        /\ {replies[w] : w \in Workers} = {Integer(i) : i \in 1..MaxWorkers}

====
